---- MODULE Spec2Model ----
(***************************************************************************)
(* Model of the digital-twin client (src/app.js): photo roster, encoding   *)
(* pipeline, the verify / generate workflows with their loading state,     *)
(* the QA renderer and the artifact path.                                  *)
(*                                                                         *)
(* JavaScript runs one task at a time.  Every action below is one task:    *)
(* an event handler, or the continuation of an async function from one     *)
(* await that waits on I/O to the next.  Each invocation of onVerify or    *)
(* onGenerate that is suspended at an await is one record of wf.           *)
(***************************************************************************)
EXTENDS Integers, Sequences, FiniteSets, TLC

VARIABLES
    roleFiles,      \* state.roleFiles: role -> file or NoFile
    b64s,           \* state.b64s
    lastQA,         \* state.lastQA
    lastGLB,        \* state.lastGLB
    measurements,   \* state.measurements: point id -> number
    ENDPOINT_FULL,  \* module variable ENDPOINT_FULL
    RUNPOD_API_KEY, \* module variable RUNPOD_API_KEY
    CURRENT_GENDER, \* module variable CURRENT_GENDER
    endpointField,  \* els.endpointFull.value
    apiKeyField,    \* els.apiKey.value
    disabled,       \* els.btnVerify.disabled, els.btnGenerate.disabled
    status,         \* text of the status bar (els.statusContainer)
    qaSummary,      \* chips in els.qaSummary
    retakeTips,     \* list items in els.retakeTipsContainer
    viewerSrc,      \* els.viewer.src
    downloadShown,  \* els.btnDownload is displayed
    wf,             \* suspended invocations of onVerify / onGenerate
    overlay,        \* point elements in els.figureWrapper, in document order
    timers,         \* pending setTimeout callbacks of renderFigure, per call
    downloaded,     \* the file the last click on the download anchor emitted
    log             \* the last line logln appended to els.log

vars == <<roleFiles, b64s, lastQA, lastGLB, measurements, ENDPOINT_FULL,
          RUNPOD_API_KEY, CURRENT_GENDER, endpointField, apiKeyField,
          disabled, status, qaSummary, retakeTips, viewerSrc, downloadShown, wf,
          overlay, timers, downloaded, log>>

(***************************************************************************)
(* Bounds of the model.                                                    *)
(***************************************************************************)
\* Invocations that may be suspended at once before the model stops
\* accepting clicks (the code itself sets no limit).
MaxInFlight == 2

\* Calls of renderFigure whose timers may be pending at once before the
\* model stops accepting gender clicks (the code itself sets no limit).
MaxPendingRenders == 2

(***************************************************************************)
(* Values.                                                                 *)
(***************************************************************************)
Roles == <<"front", "side", "back", "foot">>
RoleSet == {"front", "side", "back", "foot"}
RequiredRoles == <<"front", "side", "back">>

NoFile == [null |-> TRUE]
NullQA == [null |-> TRUE]
NullGLB == "<null>"
NoSrc == "<none>"
NoDownload == [none |-> TRUE]

MaxFileSize == 10 * 1024 * 1024

\* Files the user can pick: name, media type (split at the slash), size in
\* bytes and content.
photoA == [name |-> "a.png", type |-> <<"image", "png">>, size |-> 2048, content |-> "ABC"]
photoB == [name |-> "b.jpg", type |-> <<"image", "jpeg">>, size |-> MaxFileSize, content |-> "ABD"]
notImage == [name |-> "n.pdf", type |-> <<"application", "pdf">>, size |-> 2048, content |-> "ABE"]
tooLarge == [name |-> "big.png", type |-> <<"image", "png">>, size |-> MaxFileSize + 1, content |-> "ABF"]

\* Base64 text of a file's content: what follows the comma of the data URL.
Base64 == [c \in {"ABC", "ABD", "ABE", "ABF"} |->
             CASE c = "ABC" -> "QUJD"
               [] c = "ABD" -> "QUJE"
               [] c = "ABE" -> "QUJF"
               [] c = "ABF" -> "QUJG"]

\* Status bar texts (setStatus's first argument, without the icon).
MsgMissingPhotos == "Please upload Front, Side, and Back photos."
MsgNoEndpoint == "Please enter your RunPod runsync URL."
MsgRetake == "Some photos need to be retaken."
MsgVerified == "All photos passed quality check!"
MsgVerifyFailed == "Verification failed. Check the log for details."
MsgReady == "Your 3D twin is ready!"
MsgNoModel == "No 3D model returned. Check the log."
MsgGenerateFailed == "Generation failed. Check the log for details."
MsgEnterEndpoint == "Please enter your RunPod runsync URL to get started."
MsgConfigured == "API endpoint configured. Ready to process!"
MsgTooLarge == "File too large"
MsgAllUploaded == "All required photos uploaded"
MsgSomeUploaded == "required photos uploaded"

\* Log lines (logln's argument, without the icon and the values it embeds).
LogInitialized == "Digital Twin Generator initialized"
LogInvalidType == "Invalid file type. Please upload an image."
LogFileTooLarge == "File size too large. Max 10MB."
LogUploaded == "uploaded"
LogEndpointConfigured == "Endpoint configured"
LogMissingPhotos == "Missing required photos"
LogNoEndpoint == "No endpoint URL configured"
LogConverting == "Converting images to base64..."
LogCallingApi == "Calling API"
LogMayTake == "This may take 30-60 seconds..."
LogError == "Error"
LogQualityIssues == "Photo quality issues detected"
LogVerified == "Photo verification successful"
LogLoadingModel == "Loading 3D model..."
LogModelLoaded == "3D model loaded!"
LogNoModelData == "No model data in response"
LogSwitched == "Switched figure"
LogNoModel == "No model to download"
LogDownloaded == "Model downloaded"
LogMeasured == "cm"

\* Model payloads a response can carry.  "@@@" is not base64 text: the
\* fetch of its data: URL rejects.
Decodable(g) == g \in {"QUJD", "R0xC"}

\* Responses of the remote service (parsed JSON).  A field the response
\* does not carry is absent from the record.
rrGood == [front |-> [status |-> "ok"], side |-> [status |-> "ok"], back |-> [status |-> "ok"]]
rrBad == [front |-> [status |-> "ok"], side |-> [status |-> "retry"]]

resPass == [ok |-> TRUE, role_report |-> rrGood, retake_tips |-> <<>>]
resRetake == [ok |-> FALSE, role_report |-> rrBad, retake_tips |-> <<"Improve lighting">>]
resBare == [role_report |-> rrGood]
resModel1 == [ok |-> TRUE, role_report |-> rrGood, retake_tips |-> <<>>, glb_b64 |-> "QUJD"]
resModel2 == [role_report |-> rrGood, glb_b64 |-> "R0xC", log |-> "done"]
resEmptyModel == [ok |-> TRUE, role_report |-> rrGood, glb_b64 |-> ""]
resBadModel == [ok |-> TRUE, role_report |-> rrBad, glb_b64 |-> "@@@"]

Responses == {resPass, resRetake, resBare, resModel1, resModel2, resEmptyModel, resBadModel}

(***************************************************************************)
(* Helpers.                                                                *)
(***************************************************************************)
RemoveAt(s, k) == SubSeq(s, 1, k - 1) \o SubSeq(s, k + 1, Len(s))

\* logln(m): the line the log ends with.
logln(m) == [text |-> m]

\* The line the log ends with after onGenerate's if (res.log) block, when
\* it ended with line before it.
serverLog(res, line) ==
    IF "log" \in DOMAIN res /\ res.log # "" THEN logln(res.log) ELSE line

\* setStatus(text, type)
setStatus(text, type) == [text |-> text, type |-> type]

\* setLoading that forgets the generate button.
setLoadingVerifyOnly(isLoading) == [btnVerify |-> isLoading, btnGenerate |-> FALSE]

\* setLoading(isLoading): the disabled flags of the two trigger buttons.
setLoading(isLoading) == [btnVerify |-> isLoading, btnGenerate |-> isLoading]

\* Object.values(state.roleFiles).filter(Boolean): the files of the roster
\* in the key order of the object literal, absent roles skipped.
RECURSIVE PresentFrom(_, _)
PresentFrom(rf, i) ==
    IF i > Len(Roles) THEN <<>>
    ELSE IF rf[Roles[i]] = NoFile THEN PresentFrom(rf, i + 1)
         ELSE <<rf[Roles[i]]>> \o PresentFrom(rf, i + 1)

\* The files of the roster in the reverse of the key order.
PresentFilesReversed(rf) ==
    LET fs == PresentFrom(rf, 1)
    IN  [i \in 1..Len(fs) |-> fs[Len(fs) + 1 - i]]

PresentFiles(rf) == PresentFrom(rf, 1)

\* A gate that asks for the foot photo as well.
MissingRequiredOrFoot(rf) ==
    rf["front"] = NoFile \/ rf["side"] = NoFile \/ rf["back"] = NoFile
        \/ rf["foot"] = NoFile

\* !state.roleFiles.front || !state.roleFiles.side || !state.roleFiles.back
MissingRequired(rf) ==
    rf["front"] = NoFile \/ rf["side"] = NoFile \/ rf["back"] = NoFile

\* fileToBase64 when the read succeeds: reader.result.split(',')[1]
fileToBase64(f) == Base64[f.content]

\* updateUploadStatus: the status after a roster change.
updateUploadStatus(rf) ==
    LET uploaded == Cardinality({r \in RoleSet : rf[r] # NoFile})
        required == Cardinality({r \in {"front", "side", "back"} : rf[r] # NoFile})
    IN  IF required = 3
        THEN [text |-> MsgAllUploaded, type |-> "ok", count |-> uploaded]
        ELSE [text |-> MsgSomeUploaded, type |-> "info", count |-> required]

\* A field of a parsed response, and JavaScript's truthiness of glb_b64.
Has(res, k) == k \in DOMAIN res
HasModel(res) == Has(res, "glb_b64") /\ res.glb_b64 # ""

\* roleChip(role, report): the class of the chip shown for one role.
roleChip(rr, role) ==
    LET st == IF role \in DOMAIN rr /\ "status" \in DOMAIN rr[role]
              THEN rr[role].status ELSE "missing"
    IN  [role |-> role,
         cls |-> IF st = "ok" THEN "ok" ELSE IF st = "retry" THEN "warn" ELSE "bad"]

\* renderQA that merges the response into the stored report.
renderQAMerge(res) ==
    LET rr == IF Has(res, "role_report") THEN res.role_report ELSE [x \in {} |-> 0]
        tips == IF Has(res, "retake_tips") THEN res.retake_tips ELSE <<>>
    IN  [lastQA |-> res @@ lastQA,
         qaSummary |-> <<roleChip(rr, "front"), roleChip(rr, "side"), roleChip(rr, "back")>>,
         retakeTips |-> tips]

\* renderQA that leaves the tips shown when the response has none.
renderQAKeepsTips(res) ==
    LET rr == IF Has(res, "role_report") THEN res.role_report ELSE [x \in {} |-> 0]
        tips == IF Has(res, "retake_tips") THEN res.retake_tips ELSE <<>>
    IN  [lastQA |-> res,
         qaSummary |-> <<roleChip(rr, "front"), roleChip(rr, "side"), roleChip(rr, "back")>>,
         retakeTips |-> IF Len(tips) > 0 THEN tips ELSE retakeTips]

\* renderQA(res): what it stores and shows.
renderQA(res) ==
    LET rr == IF Has(res, "role_report") THEN res.role_report ELSE [x \in {} |-> 0]
        tips == IF Has(res, "retake_tips") THEN res.retake_tips ELSE <<>>
    IN  [lastQA |-> res,
         qaSummary |-> <<roleChip(rr, "front"), roleChip(rr, "side"), roleChip(rr, "back")>>,
         retakeTips |-> tips]

\* readMeasures followed by JSON.stringify, which drops undefined fields:
\* API field -> number, for the fields whose source point has a value.
ApiSource == [height |-> <<"m_height">>, chest |-> <<"m_chest", "m_bust">>,
              waist |-> <<"m_waist">>, hips |-> <<"m_hip">>,
              shoulder |-> <<"m_shoulder">>, inseam |-> <<"m_inseam">>,
              arm |-> <<"m_arm">>, foot_length |-> <<"m_foot_len">>,
              foot_width |-> <<"m_foot_wid">>, neck |-> <<"m_neck">>,
              head |-> <<"m_head">>, hand |-> <<"m_hand">>]

\* A readMeasures that takes chest from m_bust first.
readMeasuresBustFirst(m) ==
    LET filled(f) == {i \in 1..Len(ApiSource[f]) : ApiSource[f][i] \in DOMAIN m}
        last(f) == CHOOSE i \in filled(f) : \A j \in filled(f) : i >= j
    IN  [f \in {g \in DOMAIN ApiSource : filled(g) # {}} |-> m[ApiSource[f][last(f)]]]

readMeasures(m) ==
    LET filled(f) == {i \in 1..Len(ApiSource[f]) : ApiSource[f][i] \in DOMAIN m}
        first(f) == CHOOSE i \in filled(f) : \A j \in filled(f) : i <= j
    IN  [f \in {g \in DOMAIN ApiSource : filled(g) # {}} |-> m[ApiSource[f][first(f)]]]

\* The request postJSON sends: url, Authorization header and the payload
\* wrapped as {input: payload}.
VerifyPayload(photos) ==
    [photos |-> photos, required_roles |-> RequiredRoles, allowPartial |-> FALSE]

\* A generate payload whose preset is always male.
GeneratePayloadMale(photos, gender, m) ==
    [photos |-> photos, required_roles |-> RequiredRoles, allowPartial |-> FALSE,
     texRes |-> 2048,
     preset |-> "male",
     measures |-> readMeasures(m)]

GeneratePayload(photos, gender, m) ==
    [photos |-> photos, required_roles |-> RequiredRoles, allowPartial |-> FALSE,
     texRes |-> 2048,
     preset |-> IF gender = "female" THEN "female" ELSE "male",
     measures |-> readMeasures(m)]

\* url.includes('runpod.ai'), on a url given as its sequence of tokens
IncludesRunpod(url) == \E i \in 1..Len(url) : url[i] = "runpod.ai"

postJSON(url, key, payload) ==
    [url |-> url,
     auth |-> IF key # <<>> /\ IncludesRunpod(url) THEN key ELSE <<>>,
     input |-> payload]

(***************************************************************************)
(* Initial state: the module's top-level code has run, with both input     *)
(* fields empty, so syncApi left the endpoint and the key empty.           *)
(***************************************************************************)
Init ==
    /\ roleFiles = [r \in RoleSet |-> NoFile]
    /\ b64s = <<>>
    /\ lastQA = NullQA
    /\ lastGLB = NullGLB
    /\ measurements = [x \in {} |-> 0]
    /\ ENDPOINT_FULL = <<>>
    /\ RUNPOD_API_KEY = <<>>
    /\ CURRENT_GENDER = "male"
    /\ endpointField = <<>>
    /\ apiKeyField = <<>>
    /\ disabled = setLoading(FALSE)
    /\ status = setStatus(MsgEnterEndpoint, "warn")
    /\ qaSummary = <<>>
    /\ retakeTips = <<>>
    /\ viewerSrc = NoSrc
    /\ downloadShown = FALSE
    /\ wf = <<>>
    /\ overlay = <<>>
    /\ timers = <<[gender |-> "male", next |-> 1]>>
    /\ downloaded = NoDownload
    /\ log = logln(LogInitialized)

(***************************************************************************)
(* Photo intake and configuration: the user's events.                      *)
(***************************************************************************)
\* handleFile with a limit that turns away a file of exactly the limit.
handleFileStrict(f, role) ==
    /\ IF f.type[1] # "image"
       THEN /\ log' = [text |-> LogInvalidType, role |-> role]
            /\ UNCHANGED <<roleFiles, status>>
       ELSE IF f.size >= MaxFileSize
            THEN /\ log' = [text |-> LogFileTooLarge, role |-> role]
                 /\ status' = [text |-> MsgTooLarge, type |-> "warn", name |-> f.name]
                 /\ UNCHANGED roleFiles
            ELSE /\ roleFiles' = [roleFiles EXCEPT ![role] = f]
                 /\ log' = [text |-> LogUploaded, role |-> role, name |-> f.name]
                 /\ status' = updateUploadStatus(roleFiles')
    /\ UNCHANGED <<b64s, lastQA, lastGLB, measurements, overlay, timers, downloaded, ENDPOINT_FULL, RUNPOD_API_KEY,
                   CURRENT_GENDER, endpointField, apiKeyField, disabled, qaSummary,
                   retakeTips, viewerSrc, downloadShown, wf>>

\* handleFile(f, role, img, slot)
handleFile(f, role) ==
    /\ IF f.type[1] # "image"
       THEN /\ log' = [text |-> LogInvalidType, role |-> role]
            /\ UNCHANGED <<roleFiles, status>>
       ELSE IF f.size > MaxFileSize
            THEN /\ log' = [text |-> LogFileTooLarge, role |-> role]
                 /\ status' = [text |-> MsgTooLarge, type |-> "warn", name |-> f.name]
                 /\ UNCHANGED roleFiles
            ELSE /\ roleFiles' = [roleFiles EXCEPT ![role] = f]
                 /\ log' = [text |-> LogUploaded, role |-> role, name |-> f.name]
                 /\ status' = updateUploadStatus(roleFiles')
    /\ UNCHANGED <<b64s, lastQA, lastGLB, measurements, overlay, timers, downloaded, ENDPOINT_FULL, RUNPOD_API_KEY,
                   CURRENT_GENDER, endpointField, apiKeyField, disabled, qaSummary,
                   retakeTips, viewerSrc, downloadShown, wf>>

\* String.prototype.trim on a text given as a sequence of tokens, where the
\* token " " is white space.
RECURSIVE trim(_)
trim(t) ==
    IF t = <<>> THEN <<>>
    ELSE IF Head(t) = " " THEN trim(Tail(t))
    ELSE IF t[Len(t)] = " " THEN trim(SubSeq(t, 1, Len(t) - 1))
    ELSE t

\* syncApi, after the two input fields hold endpointText and keyText.
syncApi(endpointText, keyText) ==
    /\ endpointField' = endpointText
    /\ apiKeyField' = keyText
    /\ ENDPOINT_FULL' = trim(endpointText)
    /\ RUNPOD_API_KEY' = trim(keyText)
    /\ status' = IF trim(endpointText) = <<>>
                 THEN setStatus(MsgEnterEndpoint, "warn")
                 ELSE setStatus(MsgConfigured, "ok")
    /\ log' = IF trim(endpointText) = <<>> THEN log ELSE logln(LogEndpointConfigured)
    /\ UNCHANGED <<roleFiles, b64s, lastQA, lastGLB, measurements, overlay, timers, downloaded, CURRENT_GENDER,
                   disabled, qaSummary, retakeTips, viewerSrc, downloadShown, wf>>

\* The input listener of the endpoint field: the user typed text.
EndpointInput(text) == syncApi(text, apiKeyField)

\* The input listener of the API key field.
ApiKeyInput(text) == syncApi(endpointField, text)

(***************************************************************************)
(* Measurement capture: the figure, its points and their inputs.           *)
(***************************************************************************)
\* MEASUREMENT_CONFIGS[gender].points, by id.
FemalePoints == <<"m_head", "m_neck", "m_shoulder", "m_bust", "m_underbust",
                  "m_waist", "m_hip", "m_arm", "m_hand", "m_inseam", "m_height",
                  "m_foot_len", "m_foot_wid">>
MalePoints == <<"m_head", "m_neck", "m_shoulder", "m_chest", "m_waist", "m_hip",
                "m_arm", "m_hand", "m_inseam", "m_height", "m_foot_len",
                "m_foot_wid">>

MEASUREMENT_CONFIGS(gender) == IF gender = "female" THEN FemalePoints ELSE MalePoints

\* timers holds the calls of renderFigure that have timers pending, in the
\* order in which their next timers are due.  The timers of one call are
\* due 50 ms apart, so the pending calls take turns: the call whose timer
\* fired goes to the end.  The first timer of a new call is due at once:
\* after the first timers of the calls made before it that have not fired
\* yet, and before every other pending timer.

\* Click on a gender option: CURRENT_GENDER is set and renderFigure replaces
\* the content of the figure wrapper, which drops every point element in
\* it, and sets one timer per point of the gender's configuration.
GenderClick(gender) ==
    /\ Len(timers) < MaxPendingRenders
    /\ CURRENT_GENDER' = gender
    /\ overlay' = <<>>
    /\ LET due == Cardinality({b \in 1..Len(timers) : timers[b].next = 1})
       IN  timers' = SubSeq(timers, 1, due) \o <<[gender |-> gender, next |-> 1]>>
                       \o SubSeq(timers, due + 1, Len(timers))
    /\ log' = [text |-> LogSwitched, gender |-> gender]
    /\ UNCHANGED <<roleFiles, b64s, lastQA, lastGLB, measurements, downloaded,
                   ENDPOINT_FULL, RUNPOD_API_KEY, endpointField, apiKeyField,
                   disabled, status, qaSummary, retakeTips, viewerSrc,
                   downloadShown, wf>>

\* The timer due next fires: its point element is appended to the figure
\* wrapper, whatever the figure wrapper shows by now.
TimerFires ==
    /\ timers # <<>>
    /\ LET t == Head(timers)
           points == MEASUREMENT_CONFIGS(t.gender)
       IN  /\ overlay' = Append(overlay, points[t.next])
           /\ timers' = IF t.next < Len(points)
                        THEN Append(Tail(timers), [t EXCEPT !.next = @ + 1])
                        ELSE Tail(timers)
    /\ UNCHANGED <<roleFiles, b64s, lastQA, lastGLB, measurements, downloaded, log,
                   ENDPOINT_FULL, RUNPOD_API_KEY, CURRENT_GENDER, endpointField,
                   apiKeyField, disabled, status, qaSummary, retakeTips, viewerSrc,
                   downloadShown, wf>>

\* parseFloat of the texts a point's input can hold, in tenths of a
\* centimetre; nan is NaN.
parseFloat(text) ==
    CASE text = "172" -> [nan |-> FALSE, value |-> 1720]
      [] text = "90.5" -> [nan |-> FALSE, value |-> 905]
      [] text = "0.5" -> [nan |-> FALSE, value |-> 5]
      [] text = "0" -> [nan |-> FALSE, value |-> 0]
      [] text = "-5" -> [nan |-> FALSE, value |-> -50]
      [] OTHER -> [nan |-> TRUE]

\* An input listener that keeps a zero.
MeasureInputKeepsZero(e, text) ==
    /\ e \in 1..Len(overlay)
    /\ LET id == overlay[e]
           v == parseFloat(text)
       IN  IF ~v.nan /\ v.value >= 0
           THEN /\ measurements' = [p \in DOMAIN measurements \cup {id} |->
                                      IF p = id THEN v.value ELSE measurements[p]]
                /\ log' = [text |-> LogMeasured, point |-> id, value |-> v.value]
           ELSE /\ measurements' = [p \in DOMAIN measurements \ {id} |-> measurements[p]]
                /\ UNCHANGED log
    /\ UNCHANGED <<roleFiles, b64s, lastQA, lastGLB, overlay, timers, downloaded,
                   ENDPOINT_FULL, RUNPOD_API_KEY, CURRENT_GENDER, endpointField,
                   apiKeyField, disabled, status, qaSummary, retakeTips, viewerSrc,
                   downloadShown, wf>>

\* The input listener of the e-th point element of the figure wrapper,
\* after the user made its input hold text.
MeasureInput(e, text) ==
    /\ e \in 1..Len(overlay)
    /\ LET id == overlay[e]
           v == parseFloat(text)
       IN  IF ~v.nan /\ v.value > 0
           THEN /\ measurements' = [p \in DOMAIN measurements \cup {id} |->
                                      IF p = id THEN v.value ELSE measurements[p]]
                /\ log' = [text |-> LogMeasured, point |-> id, value |-> v.value]
           ELSE /\ measurements' = [p \in DOMAIN measurements \ {id} |-> measurements[p]]
                /\ UNCHANGED log
    /\ UNCHANGED <<roleFiles, b64s, lastQA, lastGLB, overlay, timers, downloaded,
                   ENDPOINT_FULL, RUNPOD_API_KEY, CURRENT_GENDER, endpointField,
                   apiKeyField, disabled, status, qaSummary, retakeTips, viewerSrc,
                   downloadShown, wf>>

(***************************************************************************)
(* The workflows.  An invocation suspended at an await is a record         *)
(*   kind   "verify" or "generate"                                         *)
(*   pc     "reading"   await fileToBase64(f) in collectBase64             *)
(*          "fetching"  await fetch(url, ...) in postJSON                  *)
(*          "text"      await response.text() in postJSON                  *)
(*          "json"      await response.json() in postJSON                  *)
(*          "decoding"  await (await fetch(data:...)).blob() in onGenerate *)
(*   files  the array collectBase64 iterates, i the index being read       *)
(*   req    the request handed to fetch, res the parsed response           *)
(*   calls  remote calls this invocation has issued                        *)
(*   qa0, glb0  state.lastQA and state.lastGLB when it was invoked         *)
(***************************************************************************)
NoReq == [none |-> TRUE]

FailedMsg(kind) == IF kind = "verify" THEN MsgVerifyFailed ELSE MsgGenerateFailed

\* The finally block, after the try or the catch block set newStatus: the
\* invocation k is over.
Resolve(k, newStatus) ==
    /\ wf' = RemoveAt(wf, k)
    /\ disabled' = setLoading(FALSE)
    /\ status' = newStatus

\* A catch block with no finally block after it.
FailNoFinally(k) ==
    /\ wf' = RemoveAt(wf, k)
    /\ status' = setStatus(FailedMsg(wf[k].kind), "bad")
    /\ log' = logln(LogError)
    /\ UNCHANGED disabled

\* The catch block and then the finally block.
Fail(k) ==
    /\ log' = logln(LogError)
    /\ Resolve(k, setStatus(FailedMsg(wf[k].kind), "bad"))

\* An invocation that does not check the endpoint.
InvokeNoEndpointCheck(kind) ==
    /\ Len(wf) < MaxInFlight
    /\ IF MissingRequired(roleFiles)
       THEN /\ status' = setStatus(MsgMissingPhotos, "warn")
            /\ log' = logln(LogMissingPhotos)
            /\ disabled' = setLoading(FALSE)
            /\ UNCHANGED <<b64s, wf>>
       ELSE /\ disabled' = setLoading(TRUE)
            /\ b64s' = <<>>
            /\ log' = [text |-> LogConverting, count |-> Len(PresentFiles(roleFiles))]
            /\ wf' = Append(wf, [kind |-> kind, pc |-> "reading",
                                 files |-> PresentFiles(roleFiles), i |-> 1,
                                 req |-> NoReq, res |-> NullQA, calls |-> 0,
                                 qa0 |-> lastQA, glb0 |-> lastGLB,
                                 endpoint0 |-> ENDPOINT_FULL])
            /\ UNCHANGED status
    /\ UNCHANGED <<roleFiles, lastQA, lastGLB, measurements, overlay, timers, downloaded, ENDPOINT_FULL,
                   RUNPOD_API_KEY, CURRENT_GENDER, endpointField, apiKeyField,
                   qaSummary, retakeTips, viewerSrc, downloadShown>>

\* onVerify / onGenerate up to the first await: the precondition checks,
\* then collectBase64 up to its first read.
Invoke(kind) ==
    /\ Len(wf) < MaxInFlight
    /\ IF MissingRequired(roleFiles)
       THEN /\ status' = setStatus(MsgMissingPhotos, "warn")
            /\ log' = logln(LogMissingPhotos)
            /\ disabled' = setLoading(FALSE)
            /\ UNCHANGED <<b64s, wf>>
       ELSE IF ENDPOINT_FULL = <<>>
       THEN /\ status' = setStatus(MsgNoEndpoint, "warn")
            /\ log' = logln(LogNoEndpoint)
            /\ disabled' = setLoading(FALSE)
            /\ UNCHANGED <<b64s, wf>>
       ELSE /\ disabled' = setLoading(TRUE)
            /\ b64s' = <<>>
            /\ log' = [text |-> LogConverting, count |-> Len(PresentFiles(roleFiles))]
            /\ wf' = Append(wf, [kind |-> kind, pc |-> "reading",
                                 files |-> PresentFiles(roleFiles), i |-> 1,
                                 req |-> NoReq, res |-> NullQA, calls |-> 0,
                                 qa0 |-> lastQA, glb0 |-> lastGLB,
                                 endpoint0 |-> ENDPOINT_FULL])
            /\ UNCHANGED status
    /\ UNCHANGED <<roleFiles, lastQA, lastGLB, measurements, overlay, timers, downloaded, ENDPOINT_FULL,
                   RUNPOD_API_KEY, CURRENT_GENDER, endpointField, apiKeyField,
                   qaSummary, retakeTips, viewerSrc, downloadShown>>

\* Click on the verify button: a disabled button dispatches no click.
ClickVerify == ~disabled.btnVerify /\ Invoke("verify")

\* Click on the generate button.
ClickGenerate == ~disabled.btnGenerate /\ Invoke("generate")

\* The payload the invocation builds once collectBase64 has returned.
Payload(kind, photos) ==
    IF kind = "verify" THEN VerifyPayload(photos)
    ELSE GeneratePayload(photos, CURRENT_GENDER, measurements)

\* The FileReader of the file being read fires load: the text is pushed and
\* the loop reads the next file, or collectBase64 returns and the
\* invocation builds its payload and issues its call.
\* A collectBase64 that reads the roster again at every file.
ReadLoadedLive(k) ==
    /\ k \in 1..Len(wf)
    /\ wf[k].pc = "reading"
    /\ b64s' = Append(b64s, fileToBase64(PresentFiles(roleFiles)[wf[k].i]))
    /\ IF wf[k].i < Len(PresentFiles(roleFiles))
       THEN /\ wf' = [wf EXCEPT ![k].i = @ + 1]
            /\ UNCHANGED log
       ELSE /\ wf' = [wf EXCEPT ![k].pc = "fetching",
                                ![k].req = postJSON(ENDPOINT_FULL, RUNPOD_API_KEY,
                                                    Payload(wf[k].kind, b64s')),
                                ![k].calls = @ + 1]
            /\ log' = logln(IF wf[k].kind = "verify" THEN LogCallingApi ELSE LogMayTake)
    /\ UNCHANGED <<roleFiles, lastQA, lastGLB, measurements, overlay, timers, downloaded, ENDPOINT_FULL,
                   RUNPOD_API_KEY, CURRENT_GENDER, endpointField, apiKeyField,
                   disabled, status, qaSummary, retakeTips, viewerSrc, downloadShown>>

\* A collectBase64 that returns after the first file.
ReadLoadedEager(k) ==
    /\ k \in 1..Len(wf)
    /\ wf[k].pc = "reading"
    /\ b64s' = Append(b64s, fileToBase64(wf[k].files[wf[k].i]))
    /\ wf' = [wf EXCEPT ![k].pc = "fetching",
                        ![k].req = postJSON(ENDPOINT_FULL, RUNPOD_API_KEY,
                                            Payload(wf[k].kind, b64s')),
                        ![k].calls = @ + 1]
    /\ log' = logln(IF wf[k].kind = "verify" THEN LogCallingApi ELSE LogMayTake)
    /\ UNCHANGED <<roleFiles, lastQA, lastGLB, measurements, overlay, timers, downloaded, ENDPOINT_FULL,
                   RUNPOD_API_KEY, CURRENT_GENDER, endpointField, apiKeyField,
                   disabled, status, qaSummary, retakeTips, viewerSrc, downloadShown>>

ReadLoaded(k) ==
    /\ k \in 1..Len(wf)
    /\ wf[k].pc = "reading"
    /\ b64s' = Append(b64s, fileToBase64(wf[k].files[wf[k].i]))
    /\ IF wf[k].i < Len(wf[k].files)
       THEN /\ wf' = [wf EXCEPT ![k].i = @ + 1]
            /\ UNCHANGED log
       ELSE /\ wf' = [wf EXCEPT ![k].pc = "fetching",
                                ![k].req = postJSON(ENDPOINT_FULL, RUNPOD_API_KEY,
                                                    Payload(wf[k].kind, b64s')),
                                ![k].calls = @ + 1]
            /\ log' = logln(IF wf[k].kind = "verify" THEN LogCallingApi ELSE LogMayTake)
    /\ UNCHANGED <<roleFiles, lastQA, lastGLB, measurements, overlay, timers, downloaded, ENDPOINT_FULL,
                   RUNPOD_API_KEY, CURRENT_GENDER, endpointField, apiKeyField,
                   disabled, status, qaSummary, retakeTips, viewerSrc, downloadShown>>

\* A FileReader whose error nobody listens to: the promise never settles.
ReadFailedHangs(k) ==
    /\ k \in 1..Len(wf)
    /\ wf[k].pc = "reading"
    /\ wf' = [wf EXCEPT ![k].pc = "hung"]
    /\ UNCHANGED log
    /\ UNCHANGED <<roleFiles, b64s, lastQA, lastGLB, measurements, overlay, timers, downloaded, ENDPOINT_FULL,
                   RUNPOD_API_KEY, CURRENT_GENDER, endpointField, apiKeyField,
                   disabled, status, qaSummary, retakeTips, viewerSrc, downloadShown>>

\* The FileReader fires error: fileToBase64 rejects, collectBase64 throws.
ReadFailed(k) ==
    /\ k \in 1..Len(wf)
    /\ wf[k].pc = "reading"
    /\ Fail(k)
    /\ UNCHANGED <<roleFiles, b64s, lastQA, lastGLB, measurements, overlay, timers, downloaded, ENDPOINT_FULL,
                   RUNPOD_API_KEY, CURRENT_GENDER, endpointField, apiKeyField,
                   qaSummary, retakeTips, viewerSrc, downloadShown>>

\* A postJSON that issues the call once more when fetch rejects.
FetchSettledRetry(k, outcome) ==
    /\ k \in 1..Len(wf)
    /\ wf[k].pc = "fetching"
    /\ IF outcome = "reject"
       THEN IF wf[k].calls < 2
            THEN /\ wf' = [wf EXCEPT ![k].calls = @ + 1]
                 /\ UNCHANGED <<disabled, status, log>>
            ELSE Fail(k)
       ELSE /\ wf' = [wf EXCEPT ![k].pc = IF outcome = "ok" THEN "json" ELSE "text"]
            /\ UNCHANGED <<disabled, status, log>>
    /\ UNCHANGED <<roleFiles, b64s, lastQA, lastGLB, measurements, overlay, timers, downloaded, ENDPOINT_FULL,
                   RUNPOD_API_KEY, CURRENT_GENDER, endpointField, apiKeyField,
                   qaSummary, retakeTips, viewerSrc, downloadShown>>

\* fetch settles: it rejects (network failure), or resolves with a response
\* whose ok flag is false (the code then reads its text) or true (its json).
FetchSettled(k, outcome) ==
    /\ k \in 1..Len(wf)
    /\ wf[k].pc = "fetching"
    /\ IF outcome = "reject"
       THEN Fail(k)
       ELSE /\ wf' = [wf EXCEPT ![k].pc = IF outcome = "ok" THEN "json" ELSE "text"]
            /\ UNCHANGED <<disabled, status, log>>
    /\ UNCHANGED <<roleFiles, b64s, lastQA, lastGLB, measurements, overlay, timers, downloaded, ENDPOINT_FULL,
                   RUNPOD_API_KEY, CURRENT_GENDER, endpointField, apiKeyField,
                   qaSummary, retakeTips, viewerSrc, downloadShown>>

\* A catch block that drops the stored report.
BodyFailedClears(k) ==
    /\ k \in 1..Len(wf)
    /\ wf[k].pc \in {"text", "json"}
    /\ Fail(k)
    /\ lastQA' = NullQA
    /\ UNCHANGED <<roleFiles, b64s, lastGLB, measurements, overlay, timers, downloaded, ENDPOINT_FULL,
                   RUNPOD_API_KEY, CURRENT_GENDER, endpointField, apiKeyField,
                   qaSummary, retakeTips, viewerSrc, downloadShown>>

\* response.text() of a non-OK response settles: postJSON throws whether
\* the text was read or not.  response.json() rejects: the body is no JSON.
BodyFailed(k) ==
    /\ k \in 1..Len(wf)
    /\ wf[k].pc \in {"text", "json"}
    /\ Fail(k)
    /\ UNCHANGED <<roleFiles, b64s, lastQA, lastGLB, measurements, overlay, timers, downloaded, ENDPOINT_FULL,
                   RUNPOD_API_KEY, CURRENT_GENDER, endpointField, apiKeyField,
                   qaSummary, retakeTips, viewerSrc, downloadShown>>

\* An onGenerate that clears the stored artifact when the response has no
\* model.
BodyParsedClears(k, res) ==
    /\ k \in 1..Len(wf)
    /\ wf[k].pc = "json"
    /\ lastQA' = renderQA(res).lastQA
    /\ qaSummary' = renderQA(res).qaSummary
    /\ retakeTips' = renderQA(res).retakeTips
    /\ IF wf[k].kind = "verify"
       THEN /\ Resolve(k, IF Has(res, "ok") /\ res.ok = FALSE
                          THEN setStatus(MsgRetake, "warn")
                          ELSE setStatus(MsgVerified, "ok"))
            /\ log' = logln(IF Has(res, "ok") /\ res.ok = FALSE
                            THEN LogQualityIssues ELSE LogVerified)
            /\ UNCHANGED lastGLB
       ELSE IF HasModel(res)
       THEN /\ lastGLB' = res.glb_b64
            /\ wf' = [wf EXCEPT ![k].pc = "decoding", ![k].res = res]
            /\ log' = logln(LogLoadingModel)
            /\ UNCHANGED <<disabled, status>>
       ELSE /\ Resolve(k, setStatus(MsgNoModel, "bad"))
            /\ log' = serverLog(res, logln(LogNoModelData))
            /\ lastGLB' = NullGLB
    /\ UNCHANGED <<roleFiles, b64s, measurements, overlay, timers, downloaded, ENDPOINT_FULL, RUNPOD_API_KEY,
                   CURRENT_GENDER, endpointField, apiKeyField, viewerSrc, downloadShown>>

\* An onGenerate that throws when the response has no model, so that the
\* catch block sets the status.
BodyParsedThrows(k, res) ==
    /\ k \in 1..Len(wf)
    /\ wf[k].pc = "json"
    /\ lastQA' = renderQA(res).lastQA
    /\ qaSummary' = renderQA(res).qaSummary
    /\ retakeTips' = renderQA(res).retakeTips
    /\ IF wf[k].kind = "verify"
       THEN /\ Resolve(k, IF Has(res, "ok") /\ res.ok = FALSE
                          THEN setStatus(MsgRetake, "warn")
                          ELSE setStatus(MsgVerified, "ok"))
            /\ log' = logln(IF Has(res, "ok") /\ res.ok = FALSE
                            THEN LogQualityIssues ELSE LogVerified)
            /\ UNCHANGED lastGLB
       ELSE IF HasModel(res)
       THEN /\ lastGLB' = res.glb_b64
            /\ wf' = [wf EXCEPT ![k].pc = "decoding", ![k].res = res]
            /\ log' = logln(LogLoadingModel)
            /\ UNCHANGED <<disabled, status>>
       ELSE /\ Fail(k)
            /\ UNCHANGED lastGLB
    /\ UNCHANGED <<roleFiles, b64s, measurements, overlay, timers, downloaded, ENDPOINT_FULL, RUNPOD_API_KEY,
                   CURRENT_GENDER, endpointField, apiKeyField, viewerSrc, downloadShown>>

\* response.json() resolves with res: renderQA, then the rest of the try
\* block of onVerify, or of onGenerate up to its await on the model.
BodyParsed(k, res) ==
    /\ k \in 1..Len(wf)
    /\ wf[k].pc = "json"
    /\ lastQA' = renderQA(res).lastQA
    /\ qaSummary' = renderQA(res).qaSummary
    /\ retakeTips' = renderQA(res).retakeTips
    /\ IF wf[k].kind = "verify"
       THEN /\ Resolve(k, IF Has(res, "ok") /\ res.ok = FALSE
                          THEN setStatus(MsgRetake, "warn")
                          ELSE setStatus(MsgVerified, "ok"))
            /\ log' = logln(IF Has(res, "ok") /\ res.ok = FALSE
                            THEN LogQualityIssues ELSE LogVerified)
            /\ UNCHANGED lastGLB
       ELSE IF HasModel(res)
       THEN /\ lastGLB' = res.glb_b64
            /\ wf' = [wf EXCEPT ![k].pc = "decoding", ![k].res = res]
            /\ log' = logln(LogLoadingModel)
            /\ UNCHANGED <<disabled, status>>
       ELSE /\ Resolve(k, setStatus(MsgNoModel, "bad"))
            /\ log' = serverLog(res, logln(LogNoModelData))
            /\ UNCHANGED lastGLB
    /\ UNCHANGED <<roleFiles, b64s, measurements, overlay, timers, downloaded, ENDPOINT_FULL, RUNPOD_API_KEY,
                   CURRENT_GENDER, endpointField, apiKeyField, viewerSrc, downloadShown>>

\* The fetch of the data: URL of the model settles: it resolves when the
\* payload is base64 text, and the viewer and the download button are set;
\* it rejects otherwise, and the catch block runs.
DecodeSettled(k) ==
    /\ k \in 1..Len(wf)
    /\ wf[k].pc = "decoding"
    /\ IF Decodable(wf[k].res.glb_b64)
       THEN /\ viewerSrc' = wf[k].res.glb_b64
            /\ downloadShown' = TRUE
            /\ log' = serverLog(wf[k].res, logln(LogModelLoaded))
            /\ Resolve(k, setStatus(MsgReady, "ok"))
       ELSE /\ Fail(k)
            /\ UNCHANGED <<viewerSrc, downloadShown>>
    /\ UNCHANGED <<roleFiles, b64s, lastQA, lastGLB, measurements, overlay, timers, downloaded, ENDPOINT_FULL,
                   RUNPOD_API_KEY, CURRENT_GENDER, endpointField, apiKeyField,
                   qaSummary, retakeTips>>

(***************************************************************************)
(* Download.  downloaded is the file the latest click on the download      *)
(* button made the browser save, NoDownload when that click saved none;    *)
(* the timestamp in the file's name is left out.  The listener is          *)
(* registered on the button whether or not the button is displayed.        *)
(***************************************************************************)
DownloadFile(glb, gender) ==
    [href |-> <<"data:application/octet-stream;base64,", glb>>,
     name |-> <<"digital-twin-", gender, ".glb">>]

\* An onDownload that forgets the model once it is saved.
onDownloadForgets ==
    /\ IF lastGLB = NullGLB \/ lastGLB = ""
       THEN /\ downloaded' = NoDownload
            /\ log' = logln(LogNoModel)
            /\ UNCHANGED lastGLB
       ELSE /\ downloaded' = DownloadFile(lastGLB, CURRENT_GENDER)
            /\ log' = [text |-> LogDownloaded, gender |-> CURRENT_GENDER]
            /\ lastGLB' = NullGLB
    /\ UNCHANGED <<roleFiles, b64s, lastQA, measurements, overlay, timers,
                   ENDPOINT_FULL, RUNPOD_API_KEY, CURRENT_GENDER, endpointField,
                   apiKeyField, disabled, status, qaSummary, retakeTips, viewerSrc,
                   downloadShown, wf>>

onDownload ==
    /\ IF lastGLB = NullGLB \/ lastGLB = ""
       THEN /\ downloaded' = NoDownload
            /\ log' = logln(LogNoModel)
       ELSE /\ downloaded' = DownloadFile(lastGLB, CURRENT_GENDER)
            /\ log' = [text |-> LogDownloaded, gender |-> CURRENT_GENDER]
    /\ UNCHANGED <<roleFiles, b64s, lastQA, lastGLB, measurements, overlay, timers,
                   ENDPOINT_FULL, RUNPOD_API_KEY, CURRENT_GENDER, endpointField,
                   apiKeyField, disabled, status, qaSummary, retakeTips, viewerSrc,
                   downloadShown, wf>>

(***************************************************************************)
(* The orchestration machine with the inputs its workflows read.           *)
(***************************************************************************)
Photos == {photoA}
runpodUrl == <<"https://", "api.", "runpod.ai", "/v2/x/runsync">>
EndpointTexts == {<<>>, <<" ">> \o runpodUrl}

Settle ==
    \E k \in 1..MaxInFlight :
        \/ ReadLoaded(k)
        \/ ReadFailed(k)
        \/ \E o \in {"reject", "ok", "status"} : FetchSettled(k, o)
        \/ BodyFailed(k)
        \/ \E res \in Responses : BodyParsed(k, res)
        \/ DecodeSettled(k)

Next ==
    \/ \E f \in Photos, r \in RoleSet : handleFile(f, r)
    \/ \E t \in EndpointTexts : EndpointInput(t)
    \/ ClickVerify
    \/ ClickGenerate
    \/ Settle

Spec == Init /\ [][Next]_vars

(***************************************************************************)
(* Photo intake alone, with every kind of file the user can submit.        *)
(***************************************************************************)
AllPhotos == {photoA, photoB, notImage, tooLarge}

PhotoNext == \E f \in AllPhotos, r \in RoleSet : handleFile(f, r)

PhotoSpec == Init /\ [][PhotoNext]_vars

(***************************************************************************)
(* Intake and the encoding pipeline: two photos that can replace each      *)
(* other in any role at any time, and a remote service that cannot be      *)
(* reached.                                                                *)
(***************************************************************************)
TwoPhotos == {photoA, photoB}

IntakeSettle ==
    \E k \in 1..MaxInFlight :
        \/ ReadLoaded(k)
        \/ ReadFailed(k)
        \/ FetchSettled(k, "reject")

IntakeNext ==
    \/ \E f \in TwoPhotos, r \in RoleSet : handleFile(f, r)
    \/ EndpointInput(runpodUrl)
    \/ ClickVerify
    \/ ClickGenerate
    \/ IntakeSettle

IntakeSpec == Init /\ [][IntakeNext]_vars

(***************************************************************************)
(* Measurement capture and the generate request: a user who switches the   *)
(* figure once its points are drawn, fills three of the points, and        *)
(* generates against a service that cannot be reached.                     *)
(***************************************************************************)
MeasuredPoints == {"m_chest", "m_bust", "m_height"}
InputTexts == {"", "abc", "0", "-5", "172", "90.5"}
ValidTexts == {"", "172", "90.5"}

\* Measurement capture alone, with every text.
CaptureNext ==
    \/ timers = <<>> /\ \E g \in {"male", "female"} : GenderClick(g)
    \/ TimerFires
    \/ \E e \in 1..Len(MalePoints) + Len(FemalePoints), t \in InputTexts :
          /\ e <= Len(overlay)
          /\ overlay[e] \in MeasuredPoints
          /\ MeasureInput(e, t)

CaptureSpec == Init /\ [][CaptureNext]_vars

MeasureNext ==
    \/ timers = <<>> /\ \E g \in {"male", "female"} : GenderClick(g)
    \/ TimerFires
    \/ \E e \in 1..Len(MalePoints) + Len(FemalePoints), t \in ValidTexts :
          /\ e <= Len(overlay)
          /\ overlay[e] \in MeasuredPoints
          /\ MeasureInput(e, t)
    \/ \E r \in {"front", "side", "back"} : handleFile(photoA, r)
    \/ EndpointInput(runpodUrl)
    \/ ClickGenerate
    \/ ReadLoaded(1)
    \/ FetchSettled(1, "reject")

MeasureSpec == Init /\ [][MeasureNext]_vars

(***************************************************************************)
(* The outbound request: a user who enters endpoints on several hosts and  *)
(* an API key, and runs either workflow against a service that cannot be   *)
(* reached.  A url is the sequence of its pieces: scheme, subdomain,       *)
(* domain, then the pieces of the path.                                    *)
(***************************************************************************)
pathUrl == <<"https://", "evil.", "example", "/", "runpod.ai">>
otherUrl == <<"https://", "api.", "example", "/run">>
TargetUrls == {runpodUrl, pathUrl, otherUrl}
KeyTexts == {<<>>, <<"rp_key", " ">>}

RequestNext ==
    \/ \E r \in {"front", "side", "back"} : handleFile(photoA, r)
    \/ \E t \in TargetUrls : EndpointInput(t)
    \/ \E t \in KeyTexts : ApiKeyInput(t)
    \/ ClickVerify
    \/ ClickGenerate
    \/ ReadLoaded(1)
    \/ FetchSettled(1, "reject")

RequestSpec == Init /\ [][RequestNext]_vars

(***************************************************************************)
(* Download: a user who generates against a service that answers, switches *)
(* the figure and clicks download at any moment.                           *)
(***************************************************************************)
DownloadNext ==
    \/ \E r \in {"front", "side", "back"} : handleFile(photoA, r)
    \/ EndpointInput(runpodUrl)
    \/ ClickGenerate
    \/ ReadLoaded(1)
    \/ FetchSettled(1, "ok")
    \/ \E res \in {resBare, resModel1, resModel2} : BodyParsed(1, res)
    \/ DecodeSettled(1)
    \/ GenderClick("female")
    \/ onDownload

DownloadSpec == Init /\ [][DownloadNext]_vars

(***************************************************************************)
(* Rendering: verify against a service that answers with any report of a   *)
(* bounded family: each role absent or carrying one of four statuses, the  *)
(* tips absent, empty or two; and one report whose entry has no status.    *)
(***************************************************************************)
RoleEntries == {[status |-> "ok"], [status |-> "retry"], [status |-> "missing"],
                [status |-> "blurry"]}
RoleReports ==
    {rr \in UNION {[S -> RoleEntries] : S \in SUBSET RoleSet} :
        "foot" \in DOMAIN rr => rr["foot"] = [status |-> "ok"]}
TipLists == {<<>>, <<"Improve lighting", "Step back">>}
QAReports ==
    {[role_report |-> rr, retake_tips |-> t] : rr \in RoleReports, t \in TipLists}
      \cup {[role_report |-> rr] : rr \in RoleReports}
      \cup {[retake_tips |-> t] : t \in TipLists}
      \cup {[role_report |-> [front |-> [note |-> "n"]]]}

RenderNext ==
    \/ \E r \in {"front", "side", "back"} : handleFile(photoA, r)
    \/ EndpointInput(runpodUrl)
    \/ ClickVerify
    \/ ReadLoaded(1)
    \/ FetchSettled(1, "ok")
    \/ \E res \in QAReports : BodyParsed(1, res)

RenderSpec == Init /\ [][RenderNext]_vars

(***************************************************************************)
(* Request building: a user who switches the figure and fills the height   *)
(* while either workflow runs against a service that cannot be reached.    *)
(***************************************************************************)
BuildNext ==
    \/ timers = <<>> /\ \E g \in {"male", "female"} : GenderClick(g)
    \/ TimerFires
    \/ \E e \in 1..Len(MalePoints) + Len(FemalePoints), t \in {"", "172"} :
          /\ e <= Len(overlay)
          /\ overlay[e] = "m_height"
          /\ MeasureInput(e, t)
    \/ \E r \in {"front", "side", "back"} : handleFile(photoA, r)
    \/ EndpointInput(runpodUrl)
    \/ ClickVerify
    \/ ClickGenerate
    \/ ReadLoaded(1)
    \/ FetchSettled(1, "reject")

BuildSpec == Init /\ [][BuildNext]_vars

(***************************************************************************)
(* The figure alone: a user who switches the figure at any moment, also    *)
(* while the timers of earlier renderings are pending.                     *)
(***************************************************************************)
FigureNext ==
    \/ \E g \in {"male", "female"} : GenderClick(g)
    \/ TimerFires

FigureSpec == Init /\ [][FigureNext]_vars

\* The same machine, with each pending file read, remote call, body read
\* and model decode eventually settling (the browser completes or fails
\* every one of them).
LiveSpec == Init /\ [][Next]_vars /\ WF_vars(Settle)

(***************************************************************************)
(* Properties.                                                             *)
(***************************************************************************)
Busy == wf # <<>>
Idle == wf = <<>>

\* C1: at most one workflow is in flight; while one is, both trigger
\* buttons are disabled and neither click can start an invocation, and at
\* most one remote call is outstanding; once none is in flight both clicks
\* can start one again.
C1_SingleInFlight ==
    /\ Len(wf) <= 1
    /\ Cardinality({k \in 1..Len(wf) : wf[k].pc = "fetching"}) <= 1
    /\ Busy => /\ disabled.btnVerify /\ disabled.btnGenerate
               /\ ~ENABLED ClickVerify /\ ~ENABLED ClickGenerate
    /\ Idle => ENABLED ClickVerify /\ ENABLED ClickGenerate

\* An invocation started after an earlier one resolved, with its remote
\* call outstanding.
C1_Witness ==
    /\ Len(wf) = 1 /\ wf[1].pc = "fetching" /\ wf[1].qa0 # NullQA

\* C3: whenever no invocation is in flight both trigger buttons are enabled.
C3_IdleEnabled == Idle => ~disabled.btnVerify /\ ~disabled.btnGenerate

\* Idle again after a generate invocation whose model could not be decoded.
C3_Witness ==
    /\ Idle /\ status.text = MsgGenerateFailed /\ ~Decodable(lastGLB)
    /\ lastGLB # NullGLB /\ ~disabled.btnVerify /\ ~disabled.btnGenerate

\* C2: an invocation of either workflow made while a required photo is
\* missing or the endpoint is empty starts nothing (no reads, no remote
\* call), leaves the roster, the measurements, the stored report, the
\* stored artifact and the encoded sequence as they were, and sets the
\* status of its cause; the two causes have different statuses.
C2_Rejection ==
    [][((ClickVerify \/ ClickGenerate)
          /\ (MissingRequired(roleFiles) \/ ENDPOINT_FULL = <<>>))
       => /\ wf' = wf
          /\ roleFiles' = roleFiles /\ measurements' = measurements
          /\ lastQA' = lastQA /\ lastGLB' = lastGLB /\ b64s' = b64s
          /\ status'.text = (IF MissingRequired(roleFiles)
                             THEN MsgMissingPhotos ELSE MsgNoEndpoint)
          /\ MsgMissingPhotos # MsgNoEndpoint]_vars

\* A rejection for the missing endpoint, with all photos present and a
\* report, an artifact and an encoded sequence stored by earlier runs.
C2_Witness ==
    /\ Idle /\ status.text = MsgNoEndpoint /\ ~MissingRequired(roleFiles)
    /\ lastQA # NullQA /\ lastGLB # NullGLB /\ b64s # <<>>

\* C4: every invocation in flight is eventually over.
C4_ReturnsToIdle == Busy ~> Idle

\* Idle again after an invocation that failed.
C4_Witness == Idle /\ status.text = MsgVerifyFailed /\ b64s # <<>>

\* C5: an invocation has issued no remote call while it encodes and
\* exactly one from the moment encoding completed on, whatever the call's
\* outcome.
C5_OneCall ==
    \A k \in 1..Len(wf) :
        /\ wf[k].calls = (IF wf[k].pc = "reading" THEN 0 ELSE 1)
        /\ (wf[k].req # NoReq) <=> (wf[k].calls = 1)

\* An invocation whose single call came back with a non-OK status.
C5_Witness == Len(wf) = 1 /\ wf[1].pc = "text" /\ wf[1].calls = 1

\* C6: when the remote call of an invocation ends in a network failure, a
\* non-OK status or an unreadable body, the stored report and artifact are
\* those of the moment it was invoked, the failure status of its workflow
\* is shown and the invocation is over with the buttons enabled.
C6_TransportFailure ==
    [][\A k \in 1..Len(wf) :
          (FetchSettled(k, "reject") \/ BodyFailed(k))
          => /\ lastQA' = wf[k].qa0 /\ lastGLB' = wf[k].glb0
             /\ status' = setStatus(FailedMsg(wf[k].kind), "bad")
             /\ wf' = RemoveAt(wf, k)
             /\ disabled' = setLoading(FALSE)]_vars

\* A call that came back with a non-OK status while a report and an
\* artifact of earlier runs are stored.
C6_Witness ==
    /\ Len(wf) = 1 /\ wf[1].pc = "text"
    /\ wf[1].qa0 # NullQA /\ wf[1].glb0 # NullGLB

C8_ModelAccepted ==
    [][\A k \in 1..Len(wf) :
          DecodeSettled(k)
          => /\ lastGLB' = wf[k].res.glb_b64
             /\ viewerSrc' = wf[k].res.glb_b64
             /\ downloadShown']_vars

\* C9: a generate response without a model is rendered and stored as the
\* report, leaves the artifact as it was when the invocation started, and
\* ends the invocation with the no-model status, which is not the status
\* of a failed call.
C9_NoModel ==
    [][\A k \in 1..Len(wf) : \A res \in Responses :
          (wf[k].kind = "generate" /\ ~HasModel(res) /\ BodyParsed(k, res))
          => /\ lastQA' = res
             /\ qaSummary' = renderQA(res).qaSummary /\ Len(qaSummary') = 3
             /\ retakeTips' = (IF Has(res, "retake_tips") THEN res.retake_tips ELSE <<>>)
             /\ lastGLB' = wf[k].glb0
             /\ status' = setStatus(MsgNoModel, "bad")
             /\ MsgNoModel # MsgGenerateFailed
             /\ wf' = RemoveAt(wf, k)]_vars

\* Idle after a generate response without a model, the earlier artifact
\* still stored and shown.
C9_Witness ==
    /\ Idle /\ status.text = MsgNoModel /\ lastQA = resEmptyModel
    /\ lastGLB # NullGLB /\ viewerSrc = lastGLB

\* C10: every parsed response becomes the stored report, as it is, and is
\* rendered; the stored report changes in no other step.
C10_ReportReplaced ==
    [][/\ \A k \in 1..Len(wf) : \A res \in Responses :
             BodyParsed(k, res)
             => /\ lastQA' = res
                /\ qaSummary' = renderQA(res).qaSummary /\ Len(qaSummary') = 3
                /\ retakeTips' = (IF Has(res, "retake_tips") THEN res.retake_tips ELSE <<>>)
       /\ lastQA' # lastQA
          => \E k \in 1..Len(wf) : \E res \in Responses : BodyParsed(k, res)]_vars

\* A verify report replaced the report of an earlier generate run that
\* carried a model.
C10_Witness == Idle /\ lastQA = resRetake /\ lastGLB # NullGLB


\* The photos of a roster in the order front, side, back, foot, and the
\* base64 texts of a sequence of files.
InRoleOrder(rf) ==
    LET present == SelectSeq(<<"front", "side", "back", "foot">>,
                             LAMBDA r : rf[r] # NoFile)
    IN  [i \in 1..Len(present) |-> rf[present[i]]]

Encoded(files) == [i \in 1..Len(files) |-> Base64[files[i].content]]

\* C11: the files an invocation encodes are the photos of the roster in the
\* order front, side, back, foot, absent roles skipped, and the photo
\* sequence of the request it sends is their base64 texts in that order.
C11_RoleOrder ==
    [][/\ Len(wf') > Len(wf) => wf'[Len(wf')].files = InRoleOrder(roleFiles)
       /\ \A k \in 1..Len(wf) :
             (wf[k].pc = "reading" /\ Len(wf') = Len(wf) /\ wf'[k].pc = "fetching")
             => wf'[k].req.input.photos = Encoded(wf[k].files)]_vars

\* A request with four photos, two of them different files, which the
\* roster holds in the roles front and back, side and foot.
C11_Witness ==
    /\ Len(wf) = 1 /\ wf[1].pc = "fetching"
    /\ roleFiles = [front |-> photoB, side |-> photoA, back |-> photoB, foot |-> photoA]
    /\ wf[1].req.input.photos = <<"QUJE", "QUJD", "QUJE", "QUJD">>


\* C12: a submitted file that is an image of at most 10 MiB becomes the
\* photo of its role, in place of any earlier one; any other file leaves
\* the role's photo as it was and logs the reason (wrong type or too
\* large); the photos of the other roles stay as they were either way.
C12_Submit ==
    [][\A f \in AllPhotos, r \in RoleSet :
          handleFile(f, r)
          => /\ \A o \in RoleSet \ {r} : roleFiles'[o] = roleFiles[o]
             /\ IF f.type[1] = "image" /\ f.size <= 10 * 1024 * 1024
                THEN roleFiles'[r] = f
                ELSE /\ roleFiles'[r] = roleFiles[r]
                     /\ log'.role = r
                     /\ log'.text = (IF f.type[1] # "image"
                                     THEN LogInvalidType ELSE LogFileTooLarge)]_vars

\* The front photo is a file of exactly 10 MiB that took the place of
\* another, and a later file for front was turned away as too large.
C12_Witness ==
    /\ roleFiles["front"] = photoB /\ photoB.size = 10 * 1024 * 1024
    /\ roleFiles["side"] = photoA
    /\ log = [text |-> LogFileTooLarge, role |-> "front"]


\* C13: an invocation of either workflow is turned away for missing photos
\* exactly when front, side or back has no photo in the roster of that
\* moment, whether or not foot has one; with the three present and an
\* endpoint set it starts.
C13_Gate ==
    [][(ClickVerify \/ ClickGenerate)
       => LET satisfied == /\ roleFiles["front"] # NoFile
                           /\ roleFiles["side"] # NoFile
                           /\ roleFiles["back"] # NoFile
          IN  /\ (wf' = wf /\ status'.text = MsgMissingPhotos) <=> ~satisfied
              /\ (satisfied /\ ENDPOINT_FULL # <<>>)
                 => (Len(wf') = Len(wf) + 1 /\ status' = status)]_vars

\* An invocation that started with front, side and back present and no
\* foot photo.
C13_Witness ==
    /\ Len(wf) = 1 /\ wf[1].pc = "reading" /\ Len(wf[1].files) = 3
    /\ roleFiles["foot"] = NoFile

\* C14: the measures of a generate request, built from the measurements at
\* the moment the request is built, carry each API field from its point id,
\* chest from m_chest when m_chest is filled and from m_bust only when it is
\* not, and carry a field only when its point has a stored value.
FieldOf == <<<<"m_height", "height">>, <<"m_waist", "waist">>, <<"m_hip", "hips">>,
             <<"m_shoulder", "shoulder">>, <<"m_inseam", "inseam">>,
             <<"m_arm", "arm">>, <<"m_foot_len", "foot_length">>,
             <<"m_foot_wid", "foot_width">>, <<"m_neck", "neck">>,
             <<"m_head", "head">>, <<"m_hand", "hand">>>>

MeasuresAgree(m, sent) ==
    /\ DOMAIN sent \subseteq {FieldOf[i][2] : i \in 1..Len(FieldOf)} \cup {"chest"}
    /\ \A i \in 1..Len(FieldOf) :
          /\ FieldOf[i][2] \in DOMAIN sent <=> FieldOf[i][1] \in DOMAIN m
          /\ FieldOf[i][1] \in DOMAIN m => sent[FieldOf[i][2]] = m[FieldOf[i][1]]
    /\ "chest" \in DOMAIN sent <=> ("m_chest" \in DOMAIN m \/ "m_bust" \in DOMAIN m)
    /\ "m_chest" \in DOMAIN m => sent["chest"] = m["m_chest"]
    /\ ("m_chest" \notin DOMAIN m /\ "m_bust" \in DOMAIN m) => sent["chest"] = m["m_bust"]

PointIds == {FemalePoints[i] : i \in 1..Len(FemalePoints)}
              \cup {MalePoints[i] : i \in 1..Len(MalePoints)}

PositiveTexts == [t \in {"172", "90.5"} |-> IF t = "172" THEN 1720 ELSE 905]

C20_Measurements ==
    [][/\ \A p \in DOMAIN measurements' : p \in PointIds /\ measurements'[p] > 0
       /\ \A e \in 1..Len(overlay), t \in InputTexts :
            MeasureInput(e, t) =>
              /\ \A q \in PointIds \ {overlay[e]} :
                    /\ q \in DOMAIN measurements' <=> q \in DOMAIN measurements
                    /\ q \in DOMAIN measurements => measurements'[q] = measurements[q]
              /\ IF t \in DOMAIN PositiveTexts
                 THEN /\ overlay[e] \in DOMAIN measurements'
                      /\ measurements'[overlay[e]] = PositiveTexts[t]
                 ELSE overlay[e] \notin DOMAIN measurements']_vars

C20_Witness ==
    /\ log = [text |-> LogMeasured, point |-> "m_height", value |-> 1720]
    /\ DOMAIN measurements = {"m_chest", "m_bust"}

\* C15: a request carries the Authorization header only when a key is
\* configured and the host of its url is in the domain runpod.ai; a request
\* to a host of any other domain never carries the key.
HostInRunpod(url) == Len(url) >= 3 /\ url[3] = "runpod.ai"

C15_BearerOnlyToHost ==
    \A k \in 1..Len(wf) :
        (wf[k].req # NoReq /\ wf[k].req.auth # <<>>) => HostInRunpod(wf[k].req.url)

\* C16: a click on download with no model stored saves no file and changes
\* nothing but the log, which gets the advisory line; with a model stored
\* it saves exactly the stored model under the name built from the current
\* gender, and leaves the model, the roster, the measurements and the QA
\* report as they were.
C16_Download ==
    [][onDownload =>
         /\ UNCHANGED <<lastGLB, roleFiles, measurements, lastQA, b64s, wf, status,
                        disabled, viewerSrc, downloadShown, qaSummary, retakeTips,
                        ENDPOINT_FULL, RUNPOD_API_KEY, CURRENT_GENDER>>
         /\ IF lastGLB = NullGLB
            THEN downloaded' = NoDownload /\ log' = logln(LogNoModel)
            ELSE /\ downloaded'.href = <<"data:application/octet-stream;base64,", lastGLB>>
                 /\ downloaded'.name = <<"digital-twin-", CURRENT_GENDER, ".glb">>]_vars

C16_Witness ==
    /\ lastGLB = "R0xC"
    /\ CURRENT_GENDER = "female"
    /\ downloaded = DownloadFile("R0xC", "female")
    /\ log = [text |-> LogDownloaded, gender |-> "female"]

\* C17: the QA summary shown for the stored report is exactly three chips,
\* for front, side and back in this order; the chip of a role whose entry
\* has status ok is affirmative, status retry a warning, and an absent
\* entry or any other status negative; the tips shown are the report's
\* tips in order, and none when the report has none.
ExpectedChip(report, role) ==
    IF /\ "role_report" \in DOMAIN report
       /\ role \in DOMAIN report.role_report
       /\ "status" \in DOMAIN report.role_report[role]
       /\ report.role_report[role].status \in {"ok", "retry"}
    THEN (IF report.role_report[role].status = "ok" THEN "ok" ELSE "warn")
    ELSE "bad"

C17_Chips ==
    lastQA # NullQA =>
      /\ Len(qaSummary) = 3
      /\ \A i \in 1..3 :
            /\ qaSummary[i].role = <<"front", "side", "back">>[i]
            /\ qaSummary[i].cls = ExpectedChip(lastQA, qaSummary[i].role)
      /\ retakeTips = IF "retake_tips" \in DOMAIN lastQA THEN lastQA.retake_tips ELSE <<>>

C17_Witness ==
    /\ lastQA = [role_report |-> [front |-> [status |-> "ok"], side |-> [status |-> "retry"],
                                 back |-> [status |-> "missing"], foot |-> [status |-> "ok"]],
                 retake_tips |-> <<"Improve lighting", "Step back">>]
    /\ qaSummary = <<[role |-> "front", cls |-> "ok"], [role |-> "side", cls |-> "warn"],
                     [role |-> "back", cls |-> "bad"]>>
    /\ retakeTips = <<"Improve lighting", "Step back">>

\* C18: within one invocation the photos are encoded one at a time and all
\* of them before the call is issued; the response's QA report is stored
\* and shown no later than its model is stored, and before the model is
\* shown; and the invocation ends, with the controls enabled again, only
\* after both.
EncodingFirst(w, encoded) ==
    IF w.pc = "reading"
    THEN w.req = NoReq /\ w.calls = 0 /\ Len(encoded) = w.i - 1
    ELSE /\ w.calls = 1
         /\ Len(w.req.input.photos) = Len(w.files)
         /\ w.req.input.photos = encoded

C18_Ordering ==
    [][/\ \A k \in 1..Len(wf') : EncodingFirst(wf'[k], b64s') /\ disabled' = setLoading(TRUE)
       /\ \A k \in 1..Len(wf) :
            /\ (wf[k].pc = "reading" /\ b64s' # b64s) => Len(b64s') = Len(b64s) + 1
            /\ (\E res \in Responses : BodyParsed(k, res) /\ lastQA' = res)
                 \/ UNCHANGED <<lastQA, lastGLB, qaSummary, retakeTips>>
            /\ (wf[k].pc = "json" /\ Len(wf') = Len(wf) /\ wf'[k].pc = "decoding")
                 => /\ lastQA' = wf'[k].res
                    /\ lastGLB' = wf'[k].res.glb_b64
                    /\ UNCHANGED <<viewerSrc, downloadShown>>
            /\ (wf[k].pc = "decoding" /\ viewerSrc' # viewerSrc)
                 => lastQA = wf[k].res /\ wf' = <<>>
            /\ \A res \in Responses :
                 (BodyParsed(k, res) /\ wf' = <<>>)
                   => lastQA' = res /\ (wf[k].kind = "generate" => ~HasModel(res))
       /\ disabled' = setLoading(FALSE) => wf' = <<>>]_vars

C18_Witness ==
    /\ Len(wf) = 1
    /\ wf[1].pc = "decoding"
    /\ Len(wf[1].req.input.photos) = 4
    /\ lastQA = resModel2
    /\ lastGLB = "R0xC"
    /\ viewerSrc = NoSrc
    /\ disabled = setLoading(TRUE)

\* C19: when the read of a photo fails, the invocation has issued no call
\* and issues none, the stored QA report and model are unchanged, and the
\* encoded sequence does not hold the photos encoded before the failure.
C19_ReadFailure ==
    [][\A k \in 1..Len(wf) :
         ReadFailed(k) =>
           /\ wf[k].calls = 0
           /\ wf' = RemoveAt(wf, k)
           /\ UNCHANGED <<lastQA, lastGLB>>
           /\ ~(b64s' # <<>> /\ Len(b64s') < Len(wf[k].files))]_vars

\* C21: a verify request carries the encoded photos, required_roles =
\* <<front, side, back>> and allowPartial = FALSE and no other field; a
\* generate request carries these and texRes = 2048, the flattened
\* measurements, and a preset that is male or female and is the gender
\* selected when the request is built.
C21_RequestFields ==
    [][\A k \in 1..Len(wf) :
         (wf[k].pc = "reading" /\ Len(wf') = Len(wf) /\ wf'[k].pc = "fetching")
         => LET input == wf'[k].req.input
            IN  /\ input.photos = Encoded(wf[k].files)
                /\ input.required_roles = <<"front", "side", "back">>
                /\ input.allowPartial = FALSE
                /\ IF wf[k].kind = "verify"
                   THEN DOMAIN input = {"photos", "required_roles", "allowPartial"}
                   ELSE /\ DOMAIN input = {"photos", "required_roles", "allowPartial",
                                           "texRes", "preset", "measures"}
                        /\ input.texRes = 2048
                        /\ input.preset \in {"male", "female"}
                        /\ input.preset = CURRENT_GENDER
                        /\ MeasuresAgree(measurements, input.measures)]_vars

C21_Witness ==
    /\ Len(wf) = 1
    /\ wf[1].kind = "generate"
    /\ wf[1].pc = "fetching"
    /\ wf[1].req.input.preset = "female"
    /\ wf[1].req.input.measures = [height |-> 1720]
    /\ CURRENT_GENDER = "male"

\* C22: every call goes to a non-empty endpoint, the one that was
\* configured when its invocation passed the precondition check.
C22_EndpointAtCheck ==
    \A k \in 1..Len(wf) :
        wf[k].req # NoReq =>
          /\ wf[k].req.url # <<>>
          /\ wf[k].req.url = wf[k].endpoint0

\* C23: whenever no invocation is in flight, a model is stored exactly when
\* the download button is shown, and the viewer shows the stored model
\* (nothing when none is stored).
C23_ArtifactConsistent ==
    Idle =>
      /\ (lastGLB # NullGLB) <=> downloadShown
      /\ viewerSrc = IF lastGLB = NullGLB THEN NoSrc ELSE lastGLB

\* C24: a photo stored while an invocation is in flight does not change
\* what the invocation sends: its files are the roster of the moment its
\* encoding started, one per role present then (3 or 4), they stay the
\* same until it ends, and the photos it sends are their encodings.
C24_RosterSnapshot ==
    [][/\ Len(wf') > Len(wf)
          => /\ wf'[Len(wf')].files = InRoleOrder(roleFiles)
             /\ Len(wf'[Len(wf')].files) \in {3, 4}
       /\ \A f \in TwoPhotos, r \in RoleSet : handleFile(f, r) => UNCHANGED <<wf, b64s>>
       /\ \A k \in 1..Len(wf) :
            Len(wf') = Len(wf)
            => /\ wf'[k].files = wf[k].files
               /\ (wf[k].pc = "reading" /\ wf'[k].i # wf[k].i)
                    => b64s' = Append(b64s, Base64[wf[k].files[wf[k].i].content])
               /\ (wf[k].pc = "reading" /\ wf'[k].pc = "fetching")
                    => /\ wf'[k].req.input.photos = Encoded(wf[k].files)
                       /\ Len(wf'[k].req.input.photos) \in {3, 4}]_vars

C24_Witness ==
    /\ Len(wf) = 1
    /\ wf[1].pc = "fetching"
    /\ wf[1].files = <<photoA, photoA, photoA>>
    /\ wf[1].req.input.photos = <<"QUJD", "QUJD", "QUJD">>
    /\ roleFiles = [front |-> photoB, side |-> photoB, back |-> photoB, foot |-> photoB]

\* C25: once no timer is pending, the figure wrapper holds exactly one
\* point element for each point of the current gender's configuration and
\* no other point element.
Occurrences(seq, x) == Cardinality({i \in 1..Len(seq) : seq[i] = x})

C25_OverlaySettled ==
    timers = <<>> =>
      \A p \in PointIds :
          Occurrences(overlay, p) =
            Occurrences(MEASUREMENT_CONFIGS(CURRENT_GENDER), p)
====
